---- MODULE Spec2Model ----
(***************************************************************************)
(* A model of src/app.py, the Streamlit script of the 3DCP wall dashboard. *)
(*                                                                         *)
(* Strings are sequences of one-character strings, so that the regular     *)
(* expressions, os.path.join, os.path.basename and str.lower of the script *)
(* are computed character by character.  A cell of a data frame is <<v>>,  *)
(* or <<>> for NaN; a Python value that may be None is a record            *)
(* [none |-> TRUE] or [none |-> FALSE, v |-> value].  Numbers of the       *)
(* tables are integers (tenths of a unit).                                 *)
(***************************************************************************)
EXTENDS Integers, Sequences, FiniteSets, TLC

VARIABLES
    data_dir,       \* the directory get_all_slice_htmls scans
    listing,        \* os.listdir(data_dir): file names, in the OS's order
    disk,           \* bytes of each slice file on disk, by file name
    present,        \* which of the five fixed data files exist
    csv_aligned,    \* the table stored in the aligned summary CSV
    csv_ecc,        \* the table stored in the eccentricity CSV
    pc,             \* position of the script run
    slice_files,    \* DEFAULT_SLICE_HTMLS / slice_files
    df,             \* NONE until bound, then Some(table)
    df_ecc,         \* NONE until bound, then Some(table)
    session_state,  \* st.session_state: a dictionary, empty in a new session
    clicked,        \* the widget whose use triggered the current run
    selectbox,      \* the selectbox's widget state: <<>> or <<name>>
    rendered,       \* sections of the page completed by the current run
    failed,         \* the section whose exception ended the current run
    infos,          \* st.info notices written by the current run
    download,       \* <<>> or <<[label, data, file_name]>> of the slice download
    ecc_panel,      \* <<>> or <<outcome of the eccentricity section>>
    widgets         \* widgets on the page the user can act on

vars == << data_dir, listing, disk, present, csv_aligned, csv_ecc, pc,
           slice_files, df, df_ecc, session_state, clicked, selectbox,
           rendered, failed, infos, download, ecc_panel, widgets >>

envVars == << data_dir, listing, disk, present, csv_aligned, csv_ecc >>

-----------------------------------------------------------------------------
(* Bounds of the model *)

MaxFiles == 3
MaxCols == 4
MaxRows == 3

-----------------------------------------------------------------------------
(* Strings *)

SLICE_Z == << "s", "l", "i", "c", "e", "_", "z", "=" >>
MM == << "m", "m" >>
DOT_HTML == << ".", "h", "t", "m", "l" >>
NEWLINE == "\n"
SEP == "/"

DigitChars == << "0", "1", "2", "3", "4", "5", "6", "7", "8", "9" >>

IsDigit(c) == \E d \in 1..10 : DigitChars[d] = c

DigitVal(c) == (CHOOSE d \in 1..10 : DigitChars[d] = c) - 1

\* s[i..] starts with p
StartsAt(s, i, p) ==
    /\ i >= 1
    /\ i + Len(p) - 1 <= Len(s)
    /\ \A k \in 1..Len(p) : s[i + k - 1] = p[k]

\* p occurs somewhere in s (Python's `p in s`)
Contains(s, p) == \E i \in 1..(Len(s) + 1) : StartsAt(s, i, p)

\* int(digits)
RECURSIVE int(_)
int(ds) ==
    IF ds = << >> THEN 0
    ELSE 10 * int(SubSeq(ds, 1, Len(ds) - 1)) + DigitVal(ds[Len(ds)])

\* length of the longest run of [0-9] starting at s[j]
DigitRun(s, j) ==
    CHOOSE n \in 0..(Len(s) - j + 1) :
        /\ \A k \in 0..(n - 1) : IsDigit(s[j + k])
        /\ (j + n > Len(s) \/ ~IsDigit(s[j + n]))

\* os.path.join(data_dir, fname), fname a file name (no separator in it)
path_join(dir, fname) ==
    IF dir = << >> THEN fname
    ELSE IF dir[Len(dir)] = SEP THEN dir \o fname
    ELSE dir \o << SEP >> \o fname

\* os.path.basename(path): what follows the last separator
basename(path) ==
    LET seps == { i \in 1..Len(path) : path[i] = SEP }
        last == IF seps = {} THEN 0 ELSE CHOOSE i \in seps : \A j \in seps : j <= i
    IN  SubSeq(path, last + 1, Len(path))

-----------------------------------------------------------------------------
(* get_all_slice_htmls *)

\* the filter with digits required: re.match(r"slice_z=[0-9]+mm\.html$", fname)
\* without the final-newline case
re_match_digits_only(fname) ==
    /\ StartsAt(fname, 1, SLICE_Z)
    /\ LET from == Len(SLICE_Z) + 1
           n == DigitRun(fname, from)
       IN  /\ n >= 1
           /\ fname = SLICE_Z \o SubSeq(fname, from, from + n - 1) \o MM \o DOT_HTML

\* re.match(r"slice_z=.*mm\.html$", fname): anchored at the start; `.` is any
\* character but a newline; `$` is the end, or the place before a final newline
re_match(fname) ==
    \E j \in (Len(SLICE_Z) + 1)..(Len(fname) + 1) :
        /\ StartsAt(fname, 1, SLICE_Z)
        /\ \A k \in (Len(SLICE_Z) + 1)..(j - 1) : fname[k] # NEWLINE
        /\ StartsAt(fname, j, MM \o DOT_HTML)
        /\ LET end == j + Len(MM) + Len(DOT_HTML)
           IN  \/ end = Len(fname) + 1
               \/ end = Len(fname) /\ fname[end] = NEWLINE

\* z_key: re.search(r"slice_z=([0-9]+)mm", f), the leftmost match; 0 without one
z_key(f) ==
    LET hits == { i \in 1..Len(f) :
                    /\ StartsAt(f, i, SLICE_Z)
                    /\ DigitRun(f, i + Len(SLICE_Z)) >= 1
                    /\ StartsAt(f, i + Len(SLICE_Z) + DigitRun(f, i + Len(SLICE_Z)), MM) }
    IN  IF hits = {} THEN 0
        ELSE LET i == CHOOSE h \in hits : \A g \in hits : h <= g
                 from == i + Len(SLICE_Z)
             IN  int(SubSeq(f, from, from + DigitRun(f, from) - 1))

\* sorted(slice_htmls, key=z_key): a stable sort
InsertByKey(x, s) ==
    LET after == { i \in 1..Len(s) : z_key(s[i]) <= z_key(x) }
        n == IF after = {} THEN 0 ELSE CHOOSE i \in after : \A j \in after : j <= i
    IN  SubSeq(s, 1, n) \o << x >> \o SubSeq(s, n + 1, Len(s))

RECURSIVE sorted(_)
sorted(s) ==
    IF s = << >> THEN << >>
    ELSE InsertByKey(s[Len(s)], sorted(SubSeq(s, 1, Len(s) - 1)))

RECURSIVE matching_paths(_, _)
matching_paths(dir, names) ==
    IF names = << >> THEN << >>
    ELSE (IF re_match(Head(names)) THEN << path_join(dir, Head(names)) >> ELSE << >>)
         \o matching_paths(dir, Tail(names))

get_all_slice_htmls(dir, names) == sorted(matching_paths(dir, names))

-----------------------------------------------------------------------------
(* Data frames *)

COL_HEIGHT == << "H", "e", "i", "g", "h", "t", "_", "m", "m" >>
COL_AREA == << "A", "r", "e", "a", "_", "m", "m", "2" >>
COL_ECC == << "e", "c", "c", "e", "n", "t", "r", "i", "c", "i", "t", "y", "_", "m", "m" >>
COL_ANGLE == << "a", "n", "g", "l", "e", "_", "f", "r", "o", "m", "_", "b", "o", "t", "t", "o", "m", "_", "d", "e", "g" >>
COL_CENTROID_X == << "C", "e", "n", "t", "r", "o", "i", "d", "_", "X" >>
COL_X_CENTROID == << "X", "_", "C", "E", "N", "T", "R", "O", "I", "D" >>
COL_CENTROID_Y == << "c", "e", "n", "t", "r", "o", "i", "d", "_", "y" >>
CENTROID == << "c", "e", "n", "t", "r", "o", "i", "d" >>
X == << "x" >>

UpperChars == << "A", "B", "C", "D", "E", "F", "G", "H", "I", "J", "K", "L", "M", "N", "O", "P", "Q", "R", "S", "T", "U", "V", "W", "X", "Y", "Z" >>
LowerChars == << "a", "b", "c", "d", "e", "f", "g", "h", "i", "j", "k", "l", "m", "n", "o", "p", "q", "r", "s", "t", "u", "v", "w", "x", "y", "z" >>

UpperSet == { UpperChars[k] : k \in 1..Len(UpperChars) }
LowerOf == [ c \in UpperSet |-> LowerChars[CHOOSE k \in 1..Len(UpperChars) : UpperChars[k] = c] ]

\* str.lower
lower(s) == [ i \in 1..Len(s) |-> IF s[i] \in UpperSet THEN LowerOf[s[i]] ELSE s[i] ]

NONE == [ none |-> TRUE ]
Some(v) == [ none |-> FALSE, v |-> v ]
NAN == << >>

\* position of a column label in df.columns, 0 when absent
col_pos(t, name) ==
    IF \E i \in 1..Len(t.columns) : t.columns[i] = name
    THEN CHOOSE i \in 1..Len(t.columns) : t.columns[i] = name
    ELSE 0

nrows(t) == Len(t.data)

\* df.loc[r, name] / df[name].iloc[r - 1], for a column that exists
cell(t, r, name) == t.data[r][col_pos(t, name)]

\* Series.max(): NaN cells are skipped; NaN when nothing is left
series_max(t, name) ==
    LET rows == { r \in 1..nrows(t) : cell(t, r, name) # NAN }
    IN  IF rows = {} THEN NAN
        ELSE cell(t, CHOOSE r \in rows :
                        \A q \in rows : cell(t, q, name)[1] <= cell(t, r, name)[1], name)

series_min(t, name) ==
    LET rows == { r \in 1..nrows(t) : cell(t, r, name) # NAN }
    IN  IF rows = {} THEN NAN
        ELSE cell(t, CHOOSE r \in rows :
                        \A q \in rows : cell(t, q, name)[1] >= cell(t, r, name)[1], name)

\* Series.idxmax(): the label of the first row holding the maximum, NaN cells
\* skipped; 0 stands for the failure on an empty or all-NaN column
idxmax_last(t, name) ==
    LET m == series_max(t, name)
        rows == { r \in 1..nrows(t) : cell(t, r, name) = m }
    IN  IF m = NAN THEN 0
        ELSE CHOOSE r \in rows : \A q \in rows : q <= r

idxmax(t, name) ==
    LET m == series_max(t, name)
        rows == { r \in 1..nrows(t) : cell(t, r, name) = m }
    IN  IF m = NAN THEN 0
        ELSE CHOOSE r \in rows : \A q \in rows : r <= q

-----------------------------------------------------------------------------
(* The eccentricity section, lines 126-145 *)

\* [col for col in df_ecc.columns if "centroid" in col.lower() and "x" in col.lower()]
x_col(t) ==
    SelectSeq(t.columns, LAMBDA col : LET low == lower(col)
                                      IN  Contains(low, CENTROID) /\ Contains(low, X))

EccResult(err, line, z_ref, x_ref, max_ecc, idx, max_ecc_z, max_ecc_angle) ==
    [ err |-> err, line |-> line, z_ref |-> z_ref, x_ref |-> x_ref, max_ecc |-> max_ecc,
      max_ecc_idx |-> idx, max_ecc_z |-> max_ecc_z, max_ecc_angle |-> max_ecc_angle ]

\* line 128 with the last matching column instead of x_col[0]
x_ref_last(t) ==
    IF x_col(t) # << >> THEN cell(t, 1, x_col(t)[Len(x_col(t))]) ELSE << 0 >>

\* line 128: x_ref = df_ecc[x_col[0]].iloc[0] if x_col else 0.0
x_ref_of(t) ==
    IF x_col(t) # << >> THEN cell(t, 1, x_col(t)[1]) ELSE << 0 >>

\* line 133: df_ecc.loc[max_ecc_idx, angle_col] if angle_col in df_ecc.columns else None
max_ecc_angle_of(t, idx) ==
    IF col_pos(t, COL_ANGLE) # 0 THEN Some(cell(t, idx, COL_ANGLE)) ELSE NONE

\* The section's computation and its markdown panel.  err is "" when the panel
\* was written, and otherwise the exception that ended the section at `line`.
EccSection(t) ==
    IF col_pos(t, COL_HEIGHT) = 0
    THEN EccResult("KeyError", 126, NAN, NAN, NAN, 0, NAN, NONE)
    ELSE IF nrows(t) = 0
    THEN EccResult("IndexError", 126, NAN, NAN, NAN, 0, NAN, NONE)
    ELSE LET z_ref == cell(t, 1, COL_HEIGHT)
             x_ref == x_ref_of(t)
         IN  IF col_pos(t, COL_ECC) = 0
             THEN EccResult("KeyError", 129, z_ref, x_ref, NAN, 0, NAN, NONE)
             ELSE LET max_ecc == series_max(t, COL_ECC)
                      max_ecc_idx == idxmax(t, COL_ECC)
                  IN  IF max_ecc_idx = 0
                      THEN EccResult("ValueError", 130, z_ref, x_ref, max_ecc, 0, NAN, NONE)
                      ELSE LET max_ecc_z == cell(t, max_ecc_idx, COL_HEIGHT)
                               max_ecc_angle == max_ecc_angle_of(t, max_ecc_idx)
                           IN  \* {max_ecc_angle:.6f} of None is a TypeError
                               IF max_ecc_angle.none
                               THEN EccResult("TypeError", 142, z_ref, x_ref, max_ecc,
                                              max_ecc_idx, max_ecc_z, max_ecc_angle)
                               ELSE EccResult("", 145, z_ref, x_ref, max_ecc,
                                              max_ecc_idx, max_ecc_z, max_ecc_angle)

-----------------------------------------------------------------------------
(* The summary statistics section, lines 101-119 *)

\* "" when the section is written; df["Area_mm2"] and df["Height_mm"] raise
\* KeyError for a missing column.  The mean, variance and standard deviation
\* cannot fail once the column exists and are not modelled.
SummarySection(t) ==
    IF col_pos(t, COL_AREA) = 0
    THEN [ err |-> "KeyError", line |-> 109, max_area |-> NAN, min_area |-> NAN,
           max_height |-> NAN, min_height |-> NAN ]
    ELSE IF col_pos(t, COL_HEIGHT) = 0
    THEN [ err |-> "KeyError", line |-> 114, max_area |-> series_max(t, COL_AREA),
           min_area |-> series_min(t, COL_AREA), max_height |-> NAN, min_height |-> NAN ]
    ELSE [ err |-> "", line |-> 119, max_area |-> series_max(t, COL_AREA),
           min_area |-> series_min(t, COL_AREA), max_height |-> series_max(t, COL_HEIGHT),
           min_height |-> series_min(t, COL_HEIGHT) ]

-----------------------------------------------------------------------------
(* load_text_html and the download payload *)

CR == "\r"
LF == "\n"

\* f.read() of a file opened in text mode: universal newlines turn "\r\n" and a
\* lone "\r" into "\n"
RECURSIVE read_text(_)
read_text(bytes) ==
    IF bytes = << >> THEN << >>
    ELSE IF bytes[1] = CR
    THEN << LF >> \o read_text(SubSeq(bytes, IF Len(bytes) >= 2 /\ bytes[2] = LF THEN 3 ELSE 2,
                                      Len(bytes)))
    ELSE << bytes[1] >> \o read_text(Tail(bytes))

\* load_text_html(path): the bytes are ASCII, which UTF-8 decodes and encodes
\* to themselves
load_text_html(bytes) == read_text(bytes)

-----------------------------------------------------------------------------
(* The files of the data directory *)

DATA_DIR == << "d", "a", "t", "a" >>

ALIGNED_CSV == "aligned_slice_summary_translated.csv"
ECC_CSV == "aligned_slice_summary_with_eccentricity_and_angles.csv"
MATRIX_IMG == "Validate Matrix Transformation.png"
CENTROID_HTML == "centroid_drift_vertical_spline.html"
ECC_HTML == "eccentricity_vs_height.html"

FixedFiles == { ALIGNED_CSV, ECC_CSV, MATRIX_IMG, CENTROID_HTML, ECC_HTML }

\* pd.read_csv guarded by os.path.exists, None for a missing file
read_csv_or_none(file, table) ==
    IF file \in present THEN [ err |-> "", v |-> Some(table) ]
    ELSE [ err |-> "", v |-> NONE ]

\* pd.read_csv(path): the table of the file, FileNotFoundError without the file
read_csv(file, table) ==
    IF file \in present THEN [ err |-> "", v |-> Some(table) ]
    ELSE [ err |-> "FileNotFoundError", v |-> NONE ]

-----------------------------------------------------------------------------
(* A script run.  Streamlit runs the script from the top on every use of a *)
(* widget; st.session_state and the widgets' values outlive the run.       *)

Downloads == { "dl_slice", "dl_summary", "dl_ecc" }

\* slice_file_names = [os.path.basename(f) for f in DEFAULT_SLICE_HTMLS]
slice_file_names == [ i \in 1..Len(slice_files) |-> basename(slice_files[i]) ]

\* list.index(x): the first position of x
index(names, x) == CHOOSE i \in 1..Len(names) : names[i] = x /\ \A j \in 1..(i - 1) : names[j] # x

\* st.selectbox: the value the user chose, the first option before any choice
selected ==
    IF selectbox # << >> /\ \E i \in 1..Len(slice_file_names) : slice_file_names[i] = selectbox[1]
    THEN selectbox[1]
    ELSE slice_file_names[1]

\* the widgets a run has put on the page when it ends with `done` sections
\* rendered, `button` telling whether line 54 was reached
PageWidgets(done, button) ==
    (IF button THEN { "run_button" } ELSE {})
    \cup (IF "slices" \in done /\ slice_files # << >> THEN { "selectbox", "dl_slice" } ELSE {})
    \cup (IF "summary" \in done /\ ~df.none THEN { "dl_summary" } ELSE {})
    \cup (IF "ecc" \in done /\ ~df_ecc.none THEN { "dl_ecc" } ELSE {})

\* A use of widget w (or "rerun", the page's own rerun) starts a run; a run in
\* its time.sleep is stopped by it.
StartRun(w) ==
    /\ pc \in { "idle", "sleep" }
    /\ pc' = "load"
    /\ clicked' = w
    /\ df' = NONE
    /\ df_ecc' = NONE
    /\ rendered' = {}
    /\ failed' = ""
    /\ infos' = {}
    /\ download' = << >>
    /\ ecc_panel' = << >>
    /\ UNCHANGED << envVars, slice_files, session_state, widgets >>

Rerun == StartRun("rerun") /\ UNCHANGED selectbox

ClickRunPipeline ==
    /\ "run_button" \in widgets
    /\ StartRun("run_button")
    /\ UNCHANGED selectbox

SelectSlice ==
    /\ "selectbox" \in widgets
    /\ \E i \in 1..Len(slice_file_names) : selectbox' = << slice_file_names[i] >>
    /\ StartRun("selectbox")

\* the script reads the value of none of the three download buttons
ClickDownload ==
    /\ Downloads \cap widgets # {}
    /\ StartRun("download")
    /\ UNCHANGED selectbox

\* Between two runs a data file is removed from the directory.
RemoveFile ==
    /\ pc = "idle"
    /\ \E f \in present : present' = present \ { f }
    /\ UNCHANGED << data_dir, listing, disk, csv_aligned, csv_ecc, pc, slice_files, df,
                    df_ecc, session_state, clicked, selectbox, rendered, failed, infos,
                    download, ecc_panel, widgets >>

\* An exception ends the run: Streamlit shows it and runs nothing further.
Raise(section, button) ==
    /\ failed' = section
    /\ pc' = "idle"
    /\ widgets' = PageWidgets(rendered, button)

\* lines 36-49
Load ==
    /\ pc = "load"
    /\ slice_files' = get_all_slice_htmls(DATA_DIR, listing)
    /\ LET a == read_csv(ALIGNED_CSV, csv_aligned)
           e == read_csv(ECC_CSV, csv_ecc)
       IN  IF a.err # ""
           THEN /\ Raise("load", FALSE)
                /\ UNCHANGED << df, df_ecc >>
           ELSE IF e.err # ""
           THEN /\ Raise("load", FALSE)
                /\ df' = a.v
                /\ UNCHANGED df_ecc
           ELSE IF ~({ CENTROID_HTML, ECC_HTML } \subseteq present)
           THEN /\ Raise("load", FALSE)
                /\ df' = a.v
                /\ df_ecc' = e.v
           ELSE /\ df' = a.v
                /\ df_ecc' = e.v
                /\ pc' = "button"
                /\ UNCHANGED << failed, widgets >>
    /\ UNCHANGED << envVars, session_state, clicked, selectbox, rendered, infos,
                    download, ecc_panel >>

\* st.session_state.get('run_pipeline', False)
run_pipeline == IF "run_pipeline" \in DOMAIN session_state THEN session_state.run_pipeline ELSE FALSE

\* lines 52-53 run on every pass
init_flag_always(state) == [ run_pipeline |-> FALSE ]

\* lines 52-53: if 'run_pipeline' not in st.session_state: ... = False
init_flag(state) ==
    IF "run_pipeline" \notin DOMAIN state THEN [ run_pipeline |-> FALSE ] ELSE state

\* lines 52-54 with the flag set before the delay
ButtonEarly ==
    /\ pc = "button"
    /\ IF clicked = "run_button"
       THEN pc' = "sleep" /\ session_state' = [ run_pipeline |-> TRUE ]
       ELSE pc' = "gate" /\ session_state' = init_flag(session_state)
    /\ widgets' = widgets \cup { "run_button" }
    /\ UNCHANGED << envVars, slice_files, df, df_ecc, clicked, selectbox, rendered,
                    failed, infos, download, ecc_panel >>

\* lines 52-54: the flag's first value, and the button, true in the run its
\* click started
Button ==
    /\ pc = "button"
    /\ session_state' = init_flag(session_state)
    /\ pc' = IF clicked = "run_button" THEN "sleep" ELSE "gate"
    /\ widgets' = widgets \cup { "run_button" }
    /\ UNCHANGED << envVars, slice_files, df, df_ecc, clicked, selectbox, rendered,
                    failed, infos, download, ecc_panel >>

\* lines 55-59: time.sleep(2) returns
SleepDone ==
    /\ pc = "sleep"
    /\ session_state' = [ session_state EXCEPT !.run_pipeline = TRUE ]
    /\ pc' = "gate"
    /\ UNCHANGED << envVars, slice_files, df, df_ecc, clicked, selectbox, rendered,
                    failed, infos, download, ecc_panel, widgets >>

\* lines 61 and 171-172
Gate ==
    /\ pc = "gate"
    /\ IF run_pipeline
       THEN /\ pc' = "slices"
            /\ UNCHANGED << infos, widgets >>
       ELSE /\ infos' = infos \cup { "Press Run Pipeline" }
            /\ pc' = "idle"
            /\ widgets' = PageWidgets(rendered, TRUE)
    /\ UNCHANGED << envVars, slice_files, df, df_ecc, session_state, clicked, selectbox,
                    rendered, failed, download, ecc_panel >>

DOWNLOAD_ == << "D", "o", "w", "n", "l", "o", "a", "d", " " >>

\* lines 63-88; the subheader of lines 75-79 only words the title
Slices ==
    /\ pc = "slices"
    /\ IF slice_files # << >>
       THEN LET idx == index(slice_file_names, selected)
                html_content == load_text_html(disk[basename(slice_files[idx])])
            IN  /\ download' = << [ label |-> DOWNLOAD_ \o selected, data |-> html_content,
                                    file_name |-> selected ] >>
                /\ UNCHANGED infos
       ELSE /\ infos' = infos \cup { "No slice HTMLs found." }
            /\ UNCHANGED download
    /\ rendered' = rendered \cup { "slices" }
    /\ pc' = "matrix"
    /\ UNCHANGED << envVars, slice_files, df, df_ecc, session_state, clicked, selectbox,
                    failed, ecc_panel, widgets >>

\* lines 90-96
Matrix ==
    /\ pc = "matrix"
    /\ infos' = IF MATRIX_IMG \in present THEN infos
                ELSE infos \cup { "No matrix validation image found." }
    /\ rendered' = rendered \cup { "matrix" }
    /\ pc' = "summary"
    /\ UNCHANGED << envVars, slice_files, df, df_ecc, session_state, clicked, selectbox,
                    failed, download, ecc_panel, widgets >>

\* lines 98-121
Summary ==
    /\ pc = "summary"
    /\ IF df.none
       THEN /\ infos' = infos \cup { "No summary CSV found." }
            /\ rendered' = rendered \cup { "summary" }
            /\ pc' = "ecc"
            /\ UNCHANGED << failed, widgets >>
       ELSE IF SummarySection(df.v).err # ""
       THEN /\ Raise("summary", TRUE)
            /\ UNCHANGED << infos, rendered >>
       ELSE /\ rendered' = rendered \cup { "summary" }
            /\ pc' = "ecc"
            /\ UNCHANGED << infos, failed, widgets >>
    /\ UNCHANGED << envVars, slice_files, df, df_ecc, session_state, clicked, selectbox,
                    download, ecc_panel >>

\* lines 123-156
Eccentricity ==
    /\ pc = "ecc"
    /\ IF df_ecc.none
       THEN /\ infos' = infos \cup { "No eccentricity CSV found." }
            /\ rendered' = rendered \cup { "ecc" }
            /\ pc' = "plots"
            /\ UNCHANGED << failed, widgets, ecc_panel >>
       ELSE /\ ecc_panel' = << EccSection(df_ecc.v) >>
            /\ IF EccSection(df_ecc.v).err # ""
               THEN /\ Raise("ecc", TRUE)
                    /\ UNCHANGED << infos, rendered >>
               ELSE /\ rendered' = rendered \cup { "ecc" }
                    /\ pc' = "plots"
                    /\ UNCHANGED << infos, failed, widgets >>
    /\ UNCHANGED << envVars, slice_files, df, df_ecc, session_state, clicked, selectbox,
                    download >>

\* lines 158-170, the end of the script
Plots ==
    /\ pc = "plots"
    /\ rendered' = rendered \cup { "plots" }
    /\ pc' = "idle"
    /\ widgets' = PageWidgets(rendered', TRUE)
    /\ UNCHANGED << envVars, slice_files, df, df_ecc, session_state, clicked, selectbox,
                    failed, infos, download, ecc_panel >>

-----------------------------------------------------------------------------
(* The inputs the model draws *)

MaxSessionFiles == 2

\* sequences of distinct elements of S, of length at most n
DistinctSeqs(S, n) ==
    { q \in UNION { [ 1..k -> S ] : k \in 0..n } :
        \A i, j \in 1..Len(q) : i # j => q[i] # q[j] }

Range(q) == { q[i] : i \in 1..Len(q) }

N50 == SLICE_Z \o << "5", "0" >> \o MM \o DOT_HTML
N100 == SLICE_Z \o << "1", "0", "0" >> \o MM \o DOT_HTML
N007 == SLICE_Z \o << "0", "0", "7" >> \o MM \o DOT_HTML
N7 == SLICE_Z \o << "7" >> \o MM \o DOT_HTML
NoDigits == SLICE_Z \o << "t", "o", "p" >> \o MM \o DOT_HTML
NoKey == SLICE_Z \o MM \o DOT_HTML
FinalNewline == SLICE_Z \o << "9" >> \o MM \o DOT_HTML \o << NEWLINE >>
Readme == << "r", "e", "a", "d", "m", "e", ".", "t", "x", "t" >>
NotHtml == SLICE_Z \o << "5", "0" >> \o MM \o << ".", "t", "x", "t" >>
Capital == << "S" >> \o Tail(SLICE_Z) \o << "6", "0" >> \o MM \o DOT_HTML
Prefixed == << "a", "_" >> \o SLICE_Z \o << "3", "0" >> \o MM \o DOT_HTML

NamePool == { N50, N100, N007, N7, NoDigits, NoKey, FinalNewline, Readme, NotHtml,
              Capital, Prefixed }

DirPool == { DATA_DIR, DATA_DIR \o << SEP >>, SLICE_Z \o << "5" >> \o MM }

SessionNames == { N50, N100, Readme }

Plain == << "<", "p", ">", LF >>
ContentPool == { Plain, << "<", "p", ">", CR, LF, "a", CR, "b" >> }

\* the cell of column `col` in row r of a generated table
GenCell(col, r, eccv, cx) ==
    IF col = COL_HEIGHT THEN << 10 * (r - 1) >>
    ELSE IF col = COL_AREA THEN << 200 + 10 * r >>
    ELSE IF col = COL_ECC THEN eccv[r]
    ELSE IF col = COL_ANGLE THEN << 100 + r >>
    ELSE IF col = COL_CENTROID_X THEN << cx + 2 * (r - 1) >>
    ELSE IF col = COL_X_CENTROID THEN << 70 + r >>
    ELSE << 50 + r >>

MakeTable(cols, eccv, cx) ==
    [ columns |-> cols,
      data |-> [ r \in 1..Len(eccv) |-> [ c \in 1..Len(cols) |-> GenCell(cols[c], r, eccv, cx) ] ] ]

EccColPool == { COL_HEIGHT, COL_ECC, COL_ANGLE, COL_CENTROID_X, COL_X_CENTROID, COL_CENTROID_Y }
EccCells == { NAN, << 1 >>, << 5 >> }
CentroidVals == { 0, 35 }

EccTables ==
    { MakeTable(cols, eccv, cx) :
        cols \in DistinctSeqs(EccColPool, MaxCols),
        eccv \in UNION { [ 1..k -> EccCells ] : k \in 0..MaxRows },
        cx \in CentroidVals }

EccFull == << COL_HEIGHT, COL_CENTROID_X, COL_ECC, COL_ANGLE >>

\* the full table and the tables lacking one of its columns
SessionEccTables ==
    { MakeTable(cols, << << 1 >>, << 5 >>, << 5 >> >>, 35) :
        cols \in { EccFull } \cup
                 { SelectSeq(EccFull, LAMBDA c : c # d) : d \in { COL_ECC, COL_ANGLE } } }

SessionSummaryTables ==
    { MakeTable(cols, << << 1 >>, << 5 >> >>, 35) :
        cols \in { << COL_HEIGHT, COL_AREA >>, << COL_HEIGHT >>, << COL_AREA >> } }

NoTable == [ columns |-> << >>, data |-> << >> ]

\* the values of the variables a script run writes, before any run
IdleRest ==
    /\ slice_files = << >>
    /\ df = NONE
    /\ df_ecc = NONE
    /\ session_state = << >>
    /\ clicked = ""
    /\ selectbox = << >>
    /\ rendered = {}
    /\ failed = ""
    /\ infos = {}
    /\ download = << >>
    /\ ecc_panel = << >>
    /\ widgets = {}

-----------------------------------------------------------------------------
(* The session: a browser session on the data directory *)

Init ==
    /\ data_dir = DATA_DIR
    /\ listing \in DistinctSeqs(SessionNames, MaxSessionFiles)
    /\ disk \in { d \in [ Range(listing) -> ContentPool ] :
                    \A n \in Range(listing) : ~re_match(n) => d[n] = Plain }
    /\ present \in SUBSET FixedFiles
    /\ csv_aligned \in SessionSummaryTables
    /\ csv_ecc \in SessionEccTables
    /\ pc = "idle"
    /\ IdleRest

Next ==
    \/ Rerun
    \/ ClickRunPipeline
    \/ SelectSlice
    \/ ClickDownload
    \/ RemoveFile
    \/ Load
    \/ Button
    \/ SleepDone
    \/ Gate
    \/ Slices
    \/ Matrix
    \/ Summary
    \/ Eccentricity
    \/ Plots

Spec == Init /\ [][Next]_vars

-----------------------------------------------------------------------------
(* get_all_slice_htmls alone, on any directory *)

Locate ==
    /\ pc = "start"
    /\ slice_files' = get_all_slice_htmls(data_dir, listing)
    /\ pc' = "located"
    /\ UNCHANGED << envVars, df, df_ecc, session_state, clicked, selectbox, rendered,
                    failed, infos, download, ecc_panel, widgets >>

InitLocator ==
    /\ data_dir \in DirPool
    /\ listing \in DistinctSeqs(NamePool, MaxFiles)
    /\ disk = << >>
    /\ present = FixedFiles
    /\ csv_aligned = NoTable
    /\ csv_ecc = NoTable
    /\ pc = "start"
    /\ IdleRest

SpecLocator == InitLocator /\ [][Locate]_vars

-----------------------------------------------------------------------------
(* The eccentricity section alone, on any table *)

EccOnly ==
    /\ pc = "start"
    /\ ecc_panel' = << EccSection(csv_ecc) >>
    /\ pc' = "computed"
    /\ UNCHANGED << envVars, slice_files, df, df_ecc, session_state, clicked, selectbox,
                    rendered, failed, infos, download, widgets >>

InitEcc ==
    /\ data_dir = DATA_DIR
    /\ listing = << >>
    /\ disk = << >>
    /\ present = FixedFiles
    /\ csv_aligned = NoTable
    /\ csv_ecc \in EccTables
    /\ pc = "start"
    /\ IdleRest

SpecEcc == InitEcc /\ [][EccOnly]_vars

-----------------------------------------------------------------------------
(* Properties *)

\* the height key of a file name: the digit run between "slice_z=" and "mm",
\* 0 without one
HeightKey(name) == z_key(name)

\* C1: the sequence get_all_slice_htmls returns is sorted non-decreasing by
\* the height key of each file's name, whatever the directory path.
C1_SortedByNameKey ==
    pc = "located" =>
        \A i, j \in 1..Len(slice_files) :
            i < j => HeightKey(basename(slice_files[i])) <= HeightKey(basename(slice_files[j]))

\* name is slice_z=<digits>mm.<ext>: one digit at least, and digits only,
\* between "slice_z=" and "mm"
DigitsPattern(name) ==
    /\ StartsAt(name, 1, SLICE_Z)
    /\ LET from == Len(SLICE_Z) + 1
           n == DigitRun(name, from)
       IN  /\ n >= 1
           /\ StartsAt(name, from + n, MM \o << "." >>)
           /\ Len(name) > from + n + Len(MM)

\* C2 as claimed: every returned file is named slice_z=<digits>mm.<ext>.
C2_OnlyDigitNames ==
    pc = "located" =>
        \A i \in 1..Len(slice_files) : DigitsPattern(basename(slice_files[i]))

EndsWith(s, p) == Len(s) >= Len(p) /\ SubSeq(s, Len(s) - Len(p) + 1, Len(s)) = p

\* name starts with "slice_z=" and ends with "mm.html", a final newline
\* allowed after it and no newline before it
PrefixSuffix(name) ==
    LET body == IF name # << >> /\ name[Len(name)] = NEWLINE
                THEN SubSeq(name, 1, Len(name) - 1) ELSE name
    IN  /\ SubSeq(body, 1, Len(SLICE_Z)) = SLICE_Z
        /\ Len(body) >= Len(SLICE_Z) + Len(MM) + Len(DOT_HTML)
        /\ EndsWith(body, MM \o DOT_HTML)
        /\ \A k \in 1..Len(body) : body[k] # NEWLINE

\* C2, amended: the files returned are those of the directory whose name
\* starts with "slice_z=" and ends with "mm.html", digits between them or not;
\* every other file is left out, and each kept file is returned once.
C2_FilterPrefixSuffix ==
    pc = "located" =>
        /\ Range(slice_files) = { path_join(data_dir, n) : n \in { m \in Range(listing) : PrefixSuffix(m) } }
        /\ Len(slice_files) = Cardinality({ m \in Range(listing) : PrefixSuffix(m) })

C2_Witness ==
    /\ pc = "located"
    /\ Readme \in Range(listing)
    /\ N50 \in Range(listing)
    /\ NoDigits \in Range(listing)
    /\ Range(slice_files) = { path_join(data_dir, N50), path_join(data_dir, NoDigits) }

\* the table has a first row with a height
HasFirstHeight(t) == col_pos(t, COL_HEIGHT) # 0 /\ nrows(t) >= 1

\* the table has an eccentricity column with a number in it
HasEccentricity(t) ==
    /\ col_pos(t, COL_ECC) # 0
    /\ \E r \in 1..nrows(t) : cell(t, r, COL_ECC) # NAN

\* C3: the eccentricity extremum is taken from the first row, in row order,
\* whose eccentricity_mm equals the column maximum; the height, and the angle
\* when the column exists, are those of that row.
C3_FirstMaxRow ==
    (pc = "computed" /\ HasFirstHeight(csv_ecc) /\ HasEccentricity(csv_ecc)) =>
        LET p == ecc_panel[1]
            i == p.max_ecc_idx
        IN  /\ i \in 1..nrows(csv_ecc)
            /\ p.max_ecc # NAN
            /\ \A r \in 1..nrows(csv_ecc) :
                   cell(csv_ecc, r, COL_ECC) # NAN => cell(csv_ecc, r, COL_ECC)[1] <= p.max_ecc[1]
            /\ cell(csv_ecc, i, COL_ECC) = p.max_ecc
            /\ \A r \in 1..(i - 1) : cell(csv_ecc, r, COL_ECC) # p.max_ecc
            /\ p.max_ecc_z = cell(csv_ecc, i, COL_HEIGHT)
            /\ col_pos(csv_ecc, COL_ANGLE) # 0 =>
                   p.max_ecc_angle = Some(cell(csv_ecc, i, COL_ANGLE))

C3_Witness ==
    /\ pc = "computed"
    /\ csv_ecc.columns = << COL_HEIGHT, COL_ECC, COL_ANGLE >>
    /\ nrows(csv_ecc) = 3
    /\ cell(csv_ecc, 1, COL_ECC) = << 1 >>
    /\ cell(csv_ecc, 2, COL_ECC) = << 5 >>
    /\ cell(csv_ecc, 3, COL_ECC) = << 5 >>
    /\ ecc_panel[1].err = ""
    /\ ecc_panel[1].max_ecc_idx = 2
    /\ ecc_panel[1].max_ecc_z = << 10 >>
    /\ ecc_panel[1].max_ecc_angle = Some(<< 102 >>)

ResultSections == { "slices", "matrix", "summary", "ecc", "plots" }

\* C4: a failure of the summary-statistics or of the eccentricity section is
\* confined to it: the run renders every other section.
C4_FailureConfined ==
    (pc = "idle" /\ failed \in { "summary", "ecc" }) =>
        ResultSections \ { failed } \subseteq rendered

\* C5: without an angle_from_bottom_deg column the extremum's angle is None and
\* the section, through to its panel, ends without an error.
C5_MissingAngleNoError ==
    (/\ pc = "computed"
     /\ HasFirstHeight(csv_ecc)
     /\ HasEccentricity(csv_ecc)
     /\ col_pos(csv_ecc, COL_ANGLE) = 0) =>
        /\ ecc_panel[1].max_ecc_angle = NONE
        /\ ecc_panel[1].err = ""

TableMissing == ALIGNED_CSV \notin present \/ ECC_CSV \notin present

\* C6: with one of the two summary tables absent a run ends in its load, with
\* no section rendered and no notice written, whether the pipeline flag is
\* set or not; no results section is reached with a table unbound, and the
\* two "No ... CSV found" notices are never written.
C6_MissingTableFailsLoad ==
    /\ [][(pc = "load" /\ TableMissing) =>
             /\ pc' = "idle"
             /\ failed' = "load"
             /\ rendered' = {}
             /\ infos' = {}
             /\ session_state' = session_state]_vars
    /\ [](pc \in { "button", "sleep", "gate", "slices", "matrix", "summary", "ecc", "plots" }
              => ~df.none /\ ~df_ecc.none)
    /\ [](rendered # {} => ~df.none /\ ~df_ecc.none)
    /\ [](infos \cap { "No summary CSV found.", "No eccentricity CSV found." } = {})

C6_Witness ==
    /\ TableMissing
    /\ run_pipeline
    /\ pc = "idle"
    /\ failed = "load"
    /\ rendered = {}

\* C7: no results section is rendered unless the flag run_pipeline is true; the
\* flag becomes true only when the delay ends in a run the Run Pipeline button
\* started; a run that ends with the flag false shows the notice alone.
C7_ResultsOnlyAfterDelay ==
    /\ [](rendered # {} \/ pc \in { "slices", "matrix", "summary", "ecc", "plots" }
              => run_pipeline)
    /\ [][(~run_pipeline /\ run_pipeline') =>
             pc = "sleep" /\ clicked = "run_button" /\ pc' = "gate"]_vars
    /\ []((pc = "idle" /\ clicked # "" /\ failed = "" /\ ~run_pipeline)
              => rendered = {} /\ infos = { "Press Run Pipeline" })

C7_Witness ==
    /\ pc = "idle"
    /\ clicked = "run_button"
    /\ run_pipeline
    /\ rendered = ResultSections

\* C8: the payload of the slice download is byte for byte the content on disk
\* of the file whose name is the current selection.
C8_DownloadByteIdentical ==
    download # << >> =>
        /\ download[1].file_name = selected
        /\ download[1].data = disk[selected]

\* the columns whose name, in lower case, contains "centroid" and "x"
CentroidXCols(t) ==
    { i \in 1..Len(t.columns) :
        LET low == lower(t.columns[i])
        IN  Contains(low, CENTROID) /\ Contains(low, X) }

FirstCentroidX(t) == CHOOSE i \in CentroidXCols(t) : \A j \in CentroidXCols(t) : i <= j

\* C9 as claimed: the bottom reference is (Height_mm of the first row, first-row
\* value of the first centroid-x column), and its second component is 0.0
\* exactly when there is no such column.
C9_ZeroIffNoColumn ==
    (pc = "computed" /\ HasFirstHeight(csv_ecc) /\ ecc_panel[1].err = "") =>
        /\ ecc_panel[1].z_ref = cell(csv_ecc, 1, COL_HEIGHT)
        /\ CentroidXCols(csv_ecc) # {} =>
               ecc_panel[1].x_ref = csv_ecc.data[1][FirstCentroidX(csv_ecc)]
        /\ ecc_panel[1].x_ref = << 0 >> <=> CentroidXCols(csv_ecc) = {}

\* C9, amended: the bottom reference is (Height_mm of the first row, first-row
\* value of the first centroid-x column), and its second component is 0.0
\* when there is no such column.
C9_BottomReference ==
    (pc = "computed" /\ HasFirstHeight(csv_ecc)) =>
        /\ ecc_panel[1].z_ref = cell(csv_ecc, 1, COL_HEIGHT)
        /\ CentroidXCols(csv_ecc) # {} =>
               ecc_panel[1].x_ref = csv_ecc.data[1][FirstCentroidX(csv_ecc)]
        /\ CentroidXCols(csv_ecc) = {} => ecc_panel[1].x_ref = << 0 >>

C9_Witness ==
    /\ pc = "computed"
    /\ csv_ecc.columns = << COL_HEIGHT, COL_CENTROID_Y, COL_X_CENTROID, COL_CENTROID_X >>
    /\ nrows(csv_ecc) >= 1
    /\ ecc_panel[1].z_ref = << 0 >>
    /\ ecc_panel[1].x_ref = << 71 >>

\* C10: once run_pipeline is true no run sets it back, the dictionary entry is
\* written false only when it is missing, and a run that reaches line 61 with
\* the flag true goes on to the results sections.
C10_FlagMonotone ==
    /\ [][run_pipeline => run_pipeline']_vars
    /\ [][("run_pipeline" \in DOMAIN session_state /\ session_state' # session_state)
             => session_state' = [ run_pipeline |-> TRUE ]]_vars
    /\ [][(pc = "gate" /\ run_pipeline) => pc' = "slices"]_vars

C10_Witness ==
    /\ pc = "idle"
    /\ clicked = "selectbox"
    /\ selectbox = << N100 >>
    /\ run_pipeline
    /\ rendered = ResultSections

====
